---- MODULE Spec2Model ----
(***************************************************************************)
(* Template loading, first-fit template resolution and the batch loop of   *)
(* invoice2data (src/invoice2data/main.py, src/invoice2data/extract/       *)
(* loader.py).                                                             *)
(*                                                                         *)
(* Python strings are sequences of code points, so that slicing, lower(),  *)
(* replace(), split(), endswith(), substring tests and sorted() are        *)
(* computed the way the interpreter computes them.                         *)
(***************************************************************************)
EXTENDS Integers, Sequences, FiniteSets, TLC

VARIABLES
    disk,        \* the template tree as os.walk lists it: directories in walk order
    templates,   \* main.py:29, the module-level list (also the default of extract_data)
    loaded,      \* the last read_templates call made directly: its argument and outcome
    call,        \* the last extract_data call: its arguments and outcome
    reloaded,    \* the list built by the last call that had reload_templates set
    pc,          \* position of main()
    args,        \* the parsed command line of main()
    idx,         \* index of the next input file of the loop at main.py:254
    main_templates, \* the local list `templates` of main()
    output,      \* the list `output` of main()
    fs,          \* the invoice files: source paths, copy and move directories
    written      \* what output_module.write_to_file received

vars == << disk, templates, loaded, call, reloaded,
           pc, args, idx, main_templates, output, fs, written >>

extractVars == << templates, call, reloaded >>
mainVars == << pc, args, idx, main_templates, output, fs, written >>

----------------------------------------------------------------------------
(* Bounds of the model. *)

MaxDirs == 2        \* directories of a template tree, the top one included
MaxDirFiles == 2    \* files of one directory of a template tree
MaxPassed == 2      \* length of a template list a caller passes to extract_data
MaxFiles == 2       \* input files of one batch of main()

----------------------------------------------------------------------------
(* Python strings. *)

\* loader.py:87, the literal '.yml'
DotYml == << 46, 121, 109, 108 >>

\* the path separators: "\\" and "/"
Backslash == 92
Slash == 47
Space == 32

\* s[-n:]
LastN(s, n) == IF Len(s) <= n THEN s ELSE SubSeq(s, Len(s) - n + 1, Len(s))

\* s.endswith(suffix)
EndsWith(s, suffix) ==
    /\ Len(s) >= Len(suffix)
    /\ SubSeq(s, Len(s) - Len(suffix) + 1, Len(s)) = suffix

\* s.lower(), on ASCII
Lower(s) == [i \in 1..Len(s) |-> IF s[i] >= 65 /\ s[i] <= 90 THEN s[i] + 32 ELSE s[i]]

\* s.replace(from, to) for one-character strings
Replace(s, from, to) == [i \in 1..Len(s) |-> IF s[i] = from THEN to ELSE s[i]]

\* c in s, for a one-character string c
HasChar(s, c) == \E i \in 1..Len(s) : s[i] = c

\* sub in s
Contains(s, sub) ==
    \E i \in 0..(Len(s) - Len(sub)) : SubSeq(s, i + 1, i + Len(sub)) = sub

\* s.split(sep)[-1] for a one-character sep
LastComponent(s, sep) ==
    LET cuts == {i \in 1..Len(s) : s[i] = sep}
    IN  IF cuts = {} THEN s
        ELSE LET k == CHOOSE i \in cuts : \A j \in cuts : j <= i
             IN  SubSeq(s, k + 1, Len(s))

\* a < b for Python strings: by code point, a proper prefix first
RECURSIVE StrLess(_, _)
StrLess(a, b) ==
    IF Len(b) = 0 THEN FALSE
    ELSE IF Len(a) = 0 THEN TRUE
    ELSE IF a[1] # b[1] THEN a[1] < b[1]
    ELSE StrLess(Tail(a), Tail(b))

\* os.path.join(path, name) on the platform the paths of main.py:19 are written for
Join(path, name) == path \o << Backslash >> \o name

----------------------------------------------------------------------------
(* Python values that the code tells apart by type. *)

\* a str held where a list may be held too (tpl["keywords"])
PyStr(s) == [type |-> "str", str |-> s, list |-> << >>]
\* a list of str
PyList(l) == [type |-> "list", str |-> << >>, list |-> l]

----------------------------------------------------------------------------
(* The template files. *)

\* main.py:16, os.getenv('dropbox'): "d"
DROPBOX_PATH == << 100 >>

\* main.py:19 and loader.py:19: DROPBOX_PATH + "\\shared settings\\templates",
\* the two directory names written "s" and "t": "d\s\t"
templates_filepath == DROPBOX_PATH \o << 92, 115, 92, 116 >>

\* file names: "a.yml", "b.yml", "a.YML", "n.txt"
A_yml == << 97, 46, 121, 109, 108 >>
B_yml == << 98, 46, 121, 109, 108 >>
A_YML == << 97, 46, 89, 77, 76 >>
N_txt == << 110, 46, 116, 120, 116 >>

\* the field names the filename pattern of main.py:201 refers to
FieldNames == {"date", "invoice_number", "desc"}

\* what ordered_load yields for the template files of the model:
\*   R1  keywords: [A]       R2  keywords: [A, B], no invoice_number field
\*   R3  keywords: AB  (a bare string), remove_whitespace: true
\*   R4  keywords: [AB], remove_whitespace: true
R1 == [issuer |-> "r1", keywords |-> PyList(<< << 65 >> >>),
       remove_whitespace |-> FALSE, fields |-> FieldNames]
R2 == [issuer |-> "r2", keywords |-> PyList(<< << 65 >>, << 66 >> >>),
       remove_whitespace |-> FALSE, fields |-> {"date", "desc"}]
R3 == [issuer |-> "r3", keywords |-> PyStr(<< 65, 66 >>),
       remove_whitespace |-> TRUE, fields |-> FieldNames]
R4 == [issuer |-> "r4", keywords |-> PyList(<< << 65, 66 >> >>),
       remove_whitespace |-> TRUE, fields |-> FieldNames]
Records == {R1, R2, R3, R4}

\* the raw texts of the model: "A", "AB", "A B", "BA", "C"
Texts == { << 65 >>, << 65, 66 >>, << 65, 32, 66 >>, << 66, 65 >>, << 67 >> }

\* open(path): the entries of the tree stored under that path
FilesAt(d, path) ==
    { e \in UNION { {[path |-> Join(d[i].path, d[i].files[j].name),
                      tpl |-> d[i].files[j].tpl] : j \in 1..Len(d[i].files)}
                    : i \in 1..Len(d) } : e.path = path }

\* os.walk(top): the directories at and below top, as the file system lists them;
\* nothing when top is no directory
OsWalk(d, top) ==
    SelectSeq(d, LAMBDA dir :
        \/ dir.path = top
        \/ /\ Len(dir.path) > Len(top)
           /\ SubSeq(dir.path, 1, Len(top) + 1) = top \o << Backslash >>)

\* the names of a directory, in the order the file system lists them
ListedNames(dir) == [j \in 1..Len(dir.files) |-> dir.files[j].name]

\* mutant of SortedNames: the listing order is kept
UnsortedNames(files) == files

\* loader.py:110, sorted(files)
RECURSIVE SortedNames(_)
SortedNames(files) ==
    IF Len(files) = 0 THEN << >>
    ELSE LET k == CHOOSE i \in 1..Len(files) :
                      \A j \in 1..Len(files) : ~StrLess(files[j], files[i])
             rest == [j \in 1..(Len(files) - 1) |->
                          IF j < k THEN files[j] ELSE files[j + 1]]
         IN  << files[k] >> \o SortedNames(rest)

\* mutant of NormalizeKeywords: the value is kept as authored
KeepKeywords(kw) == kw

\* loader.py:104-105 and 124-125: keywords as list, if only one
NormalizeKeywords(kw) ==
    IF kw.type # "list" THEN PyList(<< kw.str >>) ELSE kw

\* loader.py:98-107 and 118-127: InvoiceTemplate(tpl), tpl the parsed record with
\* template_name set and keywords normalized
LoadTemplate(rec, name) ==
    [template_name |-> name,
     issuer |-> rec.issuer,
     keywords |-> NormalizeKeywords(rec.keywords),
     remove_whitespace |-> rec.remove_whitespace,
     fields |-> rec.fields]

\* loader.py:110-127: the templates of one directory of the walk
DirTemplates(dir) ==
    LET names == SortedNames(ListedNames(dir))
        yml == SelectSeq(names, LAMBDA n : EndsWith(n, DotYml))
        rec(n) == (CHOOSE j \in 1..Len(dir.files) : dir.files[j].name = n)
    IN  [i \in 1..Len(yml) |-> LoadTemplate(dir.files[rec(yml[i])].tpl, yml[i])]

\* loader.py:109: the loop over the walk
RECURSIVE WalkTemplates(_)
WalkTemplates(walk) ==
    IF Len(walk) = 0 THEN << >>
    ELSE DirTemplates(Head(walk)) \o WalkTemplates(Tail(walk))

\* loader.py:44-128, read_templates(filepath); filepath << >> is None.
\* raised: open() found no file
ReadTemplates(d, filepath0) ==
    LET filepath1 == IF Len(filepath0) = 0 THEN templates_filepath ELSE filepath0
    IN  IF LastN(filepath1, 4) = DotYml
        THEN LET filepath2 == Replace(filepath1, Slash, Backslash)
                 filepath == IF ~HasChar(filepath2, Backslash)
                             THEN Join(templates_filepath, filepath2)
                             ELSE filepath2
                 found == FilesAt(d, filepath)
             IN  IF found = {}
                 THEN [raised |-> TRUE, output |-> << >>]
                 ELSE [raised |-> FALSE,
                       output |-> << LoadTemplate((CHOOSE e \in found : TRUE).tpl,
                                                  LastComponent(filepath, Backslash)) >>]
        ELSE [raised |-> FALSE, output |-> WalkTemplates(OsWalk(d, filepath1))]

----------------------------------------------------------------------------
(* InvoiceTemplate: prepare_input, matches_input, extract. *)

\* t.prepare_input(extracted_str): the normalization the template's options declare
PrepareInput(t, extracted_str) ==
    IF t.remove_whitespace
    THEN SelectSeq(extracted_str, LAMBDA c : c # Space)
    ELSE extracted_str

\* what iterating over t["keywords"] yields: the items of a list, the characters of a str
KeywordItems(kw) ==
    IF kw.type = "list" THEN kw.list ELSE [i \in 1..Len(kw.str) |-> << kw.str[i] >>]

\* t.matches_input(optimized_str): every keyword occurs in the text
MatchesInput(t, optimized_str) ==
    \A i \in 1..Len(KeywordItems(t.keywords)) :
        Contains(optimized_str, KeywordItems(t.keywords)[i])

\* t.extract(optimized_str): a mapping holding the fields the template extracts
Extract(t, optimized_str) ==
    [type |-> "dict", issuer |-> t.issuer, keys |-> t.fields, text |-> optimized_str]

\* main.py:141, the literal False
PyFalse == [type |-> "bool", issuer |-> "", keys |-> {}, text |-> << >>]

\* main.py:91, chosen_template = None
NoTemplate ==
    [template_name |-> << >>, issuer |-> "None", keywords |-> PyList(<< >>),
     remove_whitespace |-> FALSE, fields |-> {}]

----------------------------------------------------------------------------
(* extract_data. *)

\* the outcome of a call: raised, or the four values returned (files_created
\* comes from read_pdf and is left out), with the list the call resolved
\* against and the templates matches_input was called on, in order
Outcome(raised, result, optimized_str, chosen, resolved, tested) ==
    [raised |-> raised, result |-> result, optimized_str |-> optimized_str,
     chosen_template |-> chosen, resolved |-> resolved, tested |-> tested]

\* the templates of list whose match test passes on their own normalized text
Matching(list, extracted_str) ==
    {i \in 1..Len(list) : MatchesInput(list[i], PrepareInput(list[i], extracted_str))}

\* mutant of ResolveLoop: the last matching template wins
ResolveLast(list, extracted_str) ==
    LET m == Matching(list, extracted_str)
    IN  IF m = {}
        THEN Outcome(FALSE, PyFalse,
                     IF Len(list) = 0 THEN extracted_str
                     ELSE PrepareInput(list[Len(list)], extracted_str),
                     NoTemplate, list, list)
        ELSE LET k == CHOOSE i \in m : \A j \in m : j <= i
                 s == PrepareInput(list[k], extracted_str)
             IN  Outcome(FALSE, Extract(list[k], s), s, list[k], list, list)

\* mutant of ResolveLoop: with no match the first template is used
ResolveOrFirst(list, extracted_str) ==
    LET m == Matching(list, extracted_str)
        k == IF m = {} THEN 1 ELSE CHOOSE i \in m : \A j \in m : i <= j
    IN  IF Len(list) = 0
        THEN Outcome(FALSE, PyFalse, extracted_str, NoTemplate, list, list)
        ELSE LET s == PrepareInput(list[k], extracted_str)
             IN  Outcome(FALSE, Extract(list[k], s), s, list[k], list,
                         SubSeq(list, 1, IF m = {} THEN Len(list) ELSE k))

\* main.py:123-132 and 139-141: the loop over the templates, and the return
\* after it
RECURSIVE ResolveFrom(_, _, _, _)
ResolveFrom(list, extracted_str, i, optimized_str) ==
    IF i > Len(list)
    THEN Outcome(FALSE, PyFalse, optimized_str, NoTemplate, list, list)
    ELSE LET s == PrepareInput(list[i], extracted_str)
         IN  IF MatchesInput(list[i], s)
             THEN Outcome(FALSE, Extract(list[i], s), s, list[i], list,
                          SubSeq(list, 1, i))
             ELSE ResolveFrom(list, extracted_str, i + 1, s)

ResolveLoop(list, extracted_str) == ResolveFrom(list, extracted_str, 1, extracted_str)

\* main.py:133-137: the forced template; templates[0] raises on an empty list
ResolveForced(list, extracted_str) ==
    IF Len(list) = 0
    THEN Outcome(TRUE, PyFalse, extracted_str, NoTemplate, list, << >>)
    ELSE LET s == PrepareInput(list[1], extracted_str)
         IN  Outcome(FALSE, Extract(list[1], s), s, list[1], list, << >>)

\* main.py:103-107: the path of the forced template
ForcedPath(template) ==
    LET t1 == Replace(template, Slash, Backslash)
        t2 == IF Lower(LastN(t1, 4)) # DotYml THEN t1 \o DotYml ELSE t1
    IN  IF ~HasChar(t2, Backslash) THEN Join(templates_filepath, t2) ELSE t2

\* the argument `templates` of a call: left out (the default of main.py:49),
\* None, or a list
ArgDefault == [kind |-> "default", list |-> << >>]
ArgNone == [kind |-> "none", list |-> << >>]
ArgList(l) == [kind |-> "list", list |-> l]

\* main.py:93-99: the list after the None test and the reload
ListOfCall(d, default, targ, reload_templates) ==
    IF reload_templates \/ targ.kind = "none"
    THEN ReadTemplates(d, templates_filepath).output
    ELSE IF targ.kind = "default" THEN default ELSE targ.list

\* main.py:49-141, extract_data; template << >> is None
ExtractData(d, default, targ, reload_templates, template, extracted_str) ==
    IF Len(template) = 0
    THEN ResolveLoop(ListOfCall(d, default, targ, reload_templates), extracted_str)
    ELSE LET r == ReadTemplates(d, ForcedPath(template))
         IN  IF r.raised
             THEN Outcome(TRUE, PyFalse, extracted_str, NoTemplate, << >>, << >>)
             ELSE ResolveForced(r.output, extracted_str)

----------------------------------------------------------------------------
(* The template trees of the model. *)

\* a directory of the walk, and a file of a directory
Dir(path, files) == [path |-> path, files |-> files]
File(name, tpl) == [name |-> name, tpl |-> tpl]

\* the sub-directories "r" and "s" of the template directory
SubR == Join(templates_filepath, << 114 >>)
SubS == Join(templates_filepath, << 115 >>)

\* the tree at import time: a.yml, b.yml and a.YML at the top (listed unsorted),
\* a.yml in the sub-directory s
Disk0 ==
    << Dir(templates_filepath, << File(B_yml, R1), File(A_YML, R4), File(A_yml, R2) >>),
       Dir(SubS, << File(A_yml, R3) >>) >>

\* the sequences without repetition over S, of length at most n
RECURSIVE Arrangements(_, _)
Arrangements(S, n) ==
    IF n = 0 THEN { << >> }
    ELSE LET shorter == Arrangements(S, n - 1)
             longer == { Append(q, x) : q \in shorter, x \in S }
         IN  shorter \cup
             { q \in longer : \A i, j \in 1..Len(q) : i # j => q[i] # q[j] }

\* what each file of a tree of the loader's model holds
Content0(name) == IF name = A_yml THEN R3 ELSE IF name = B_yml THEN R1 ELSE R2

\* the listings of one directory, and the trees of the loader's model
Listings ==
    { [j \in 1..Len(q) |-> File(q[j], Content0(q[j]))] :
          q \in Arrangements({A_yml, B_yml, N_txt}, MaxDirFiles) }
LoaderDisks ==
    UNION { { << Dir(templates_filepath, top) >> \o
              [k \in 1..Len(subs) |-> Dir(subs[k], below[k])] :
                  top \in Listings, below \in [1..Len(subs) -> Listings] }
            : subs \in Arrangements({SubR, SubS}, MaxDirs - 1) }

\* a tree without the order in which the file system lists the files of a directory
TreeOf(d) ==
    [i \in 1..Len(d) |->
        [path |-> d[i].path, files |-> {d[i].files[j] : j \in 1..Len(d[i].files)}]]

----------------------------------------------------------------------------
(* main(): the values it works on. *)

\* a tuple, as returned by extract_data (main.py:132, 137, 141)
PyTuple(items) == [type |-> "tuple", items |-> items]

\* bool(v), the test of `if res:` (main.py:257)
Truthy(v) ==
    CASE v.type = "tuple" -> Len(v.items) > 0
      [] v.type = "dict" -> v.keys # {}
      [] OTHER -> FALSE

\* whether v[key] raises for a str key: TypeError unless v is a mapping,
\* KeyError when the mapping lacks the key
ItemRaises(v, key) == ~(v.type = "dict" /\ key \in v.keys)

\* v[key] for a field the extraction holds; blank otherwise
ItemOf(v, key) ==
    IF ItemRaises(v, key) THEN << "", key >> ELSE << v.issuer, key >>

\* the date every extraction of the model holds: 2021-03-04
InvoiceDate == [Y |-> 2021, m |-> 3, d |-> 4]

\* main.py:168, the default of --output-date-format, "%Y-%m-%d", which is
\* also the literal of main.py:262 and 269; and another format, "%d/%m/%Y"
IsoFormat == << 37, 89, 45, 37, 109, 45, 37, 100 >>
DayFirstFormat == << 37, 100, 47, 37, 109, 47, 37, 89 >>

\* date.strftime(fmt): the directives %Y, %m and %d become the numbers of the
\* date, every other character stands for itself
RECURSIVE Strftime(_, _)
Strftime(date, fmt) ==
    IF Len(fmt) = 0 THEN << >>
    ELSE IF fmt[1] = 37 /\ Len(fmt) >= 2
         THEN << (CASE fmt[2] = 89 -> date.Y
                    [] fmt[2] = 109 -> date.m
                    [] fmt[2] = 100 -> date.d
                    [] OTHER -> fmt[2]) >> \o Strftime(date, SubSeq(fmt, 3, Len(fmt)))
         ELSE << fmt[1] >> \o Strftime(date, Tail(fmt))

\* mutant of FormatRaises: the subscripts never raise
FormatNeverRaises(res) == FALSE

\* main.py:261-265 and 268-272: evaluating res["date"], res["invoice_number"]
\* and res["desc"] raises
FormatRaises(res) == \E key \in FieldNames : ItemRaises(res, key)

\* main.py:261-265: args.filename.format(date=..., invoice_number=..., desc=...)
\* for the pattern "{date} {invoice_number} {desc}.pdf" of main.py:201: the
\* values put in the three places
FormatFilename(res) ==
    [date |-> Strftime(InvoiceDate, IsoFormat),
     invoice_number |-> ItemOf(res, "invoice_number"),
     desc |-> ItemOf(res, "desc")]

\* an input file: its path "<i>.pdf" and the text read_pdf gets from it
InputFile(i, text) == [name |-> << 48 + i, 46, 112, 100, 102 >>, text |-> text]

\* shutil.copyfile(src, join(dir, filename)): the directory afterwards
PutFile(dir, filename, f) ==
    { e \in dir : e.name # filename } \cup { [name |-> filename, content |-> f] }

----------------------------------------------------------------------------
(* Initial values. *)

NoLoad ==
    [called |-> FALSE, filepath |-> << >>, tree |-> << >>,
     res |-> [raised |-> FALSE, output |-> << >>]]
NoCall ==
    [made |-> FALSE, targ |-> ArgDefault, reload_templates |-> FALSE,
     template |-> << >>, extracted_str |-> << >>,
     out |-> Outcome(FALSE, PyFalse, << >>, NoTemplate, << >>, << >>)]
NoReload == [set |-> FALSE, list |-> << >>]
NoArgs ==
    [template_folder |-> << >>, exclude_built_in_templates |-> FALSE,
     copy |-> << >>, move |-> << >>, output_format |-> "none",
     output_date_format |-> IsoFormat, input_files |-> << >>]
NoFiles == [present |-> {}, copy_dir |-> {}, move_dir |-> {}]
NotWritten == [called |-> FALSE, output |-> << >>, date_format |-> << >>]

\* main.py:29, templates = read_templates() at import
ImportTemplates == ReadTemplates(Disk0, << >>).output

LoaderIdle == /\ loaded = NoLoad
ExtractIdle == /\ templates = ImportTemplates /\ call = NoCall /\ reloaded = NoReload
MainIdle ==
    /\ pc = "idle" /\ args = NoArgs /\ idx = 0 /\ main_templates = << >>
    /\ output = << >> /\ fs = NoFiles /\ written = NotWritten

----------------------------------------------------------------------------
(* read_templates called on trees listed in any order. *)

\* the arguments of the calls: None, the path of a.yml, the bare name b.yml,
\* the sub-directory s
LoaderPaths == { << >>, Join(templates_filepath, A_yml), B_yml, SubS }

\* the orders a sequence can be listed in
Reorderings(q) ==
    { [i \in 1..Len(q) |-> q[p[i]]] : p \in Permutations(1..Len(q)) }

\* the same tree with the files of one directory, or the sub-directories,
\* listed in another order
Relistings(d) ==
    ({ [d EXCEPT ![i] = Dir(d[i].path, f)] :
           i \in 1..Len(d), f \in UNION { Reorderings(d[j].files) : j \in 1..Len(d) } }
     \cup { << d[1] >> \o q : q \in Reorderings(Tail(d)) })

\* the file system lists the unchanged tree in another order
Relist ==
    /\ \E e \in Relistings(disk) :
          /\ e # disk
          /\ TreeOf(e) \in Reorderings(TreeOf(disk)) \* the same directories and files
          /\ disk' = e
    /\ UNCHANGED << loaded, extractVars, mainVars >>

\* read_templates(filepath)
ReadTemplatesCall(filepath) ==
    /\ loaded' = [called |-> TRUE, filepath |-> filepath, tree |-> TreeOf(disk),
                  res |-> ReadTemplates(disk, filepath)]
    /\ UNCHANGED << disk, extractVars, mainVars >>

InitLoader == disk \in LoaderDisks /\ LoaderIdle /\ ExtractIdle /\ MainIdle
NextLoader == Relist \/ \E filepath \in LoaderPaths : ReadTemplatesCall(filepath)
SpecLoader == InitLoader /\ [][NextLoader]_vars

----------------------------------------------------------------------------
(* Properties of read_templates (SpecLoader). *)

\* the call walked a directory (loader.py:108), rather than opening one file
IsDirLoad(l) ==
    /\ l.called
    /\ LastN(IF Len(l.filepath) = 0 THEN templates_filepath ELSE l.filepath, 4) # DotYml

\* the directory a call walked
WalkedFrom(l) == IF Len(l.filepath) = 0 THEN templates_filepath ELSE l.filepath

\* name and issuer of every template of a list, in order
NamesOf(list) == [i \in 1..Len(list) |-> << list[i].template_name, list[i].issuer >>]

\* the .yml files of a directory in ascending order of their names
AscendingYml(dir) ==
    LET yml == {e \in dir.files : EndsWith(e.name, DotYml)}
        rank(e) == 1 + Cardinality({x \in yml : StrLess(x.name, e.name)})
    IN  [k \in 1..Cardinality(yml) |->
            LET e == CHOOSE x \in yml : rank(x) = k IN << e.name, e.tpl.issuer >>]

RECURSIVE AscendingPerDirectory(_)
AscendingPerDirectory(tree) ==
    IF Len(tree) = 0 THEN << >>
    ELSE AscendingYml(Head(tree)) \o AscendingPerDirectory(Tail(tree))

\* C3 as stated: the list read_templates returns for a directory is in
\* lexicographic order of the file names.
C3_LexicographicOrder ==
    IsDirLoad(loaded) =>
        \A i, j \in 1..Len(loaded.res.output) :
            i < j => ~StrLess(loaded.res.output[j].template_name,
                              loaded.res.output[i].template_name)

\* C3 amended: the list read_templates returns for a directory tree holds,
\* directory after directory in the order os.walk visits them, the .yml files
\* of each directory in lexicographic order of their names, whatever the
\* order in which the file system lists the files of a directory; so two
\* loads of an unchanged tree walked in the same order return the same list.
C3_SortedWithinEachDirectory ==
    IsDirLoad(loaded) =>
        NamesOf(loaded.res.output) =
            AscendingPerDirectory(OsWalk(loaded.tree, WalkedFrom(loaded)))

\* a tree with a sub-directory was loaded while a directory was listed out of
\* order, and the list returned is not in lexicographic order as a whole
C3_Witness ==
    /\ IsDirLoad(loaded)
    /\ loaded.tree = TreeOf(disk)
    /\ \E i \in 1..Len(disk) : ListedNames(disk[i]) # SortedNames(ListedNames(disk[i]))
    /\ \E i \in 1..(Len(loaded.res.output) - 1) :
          StrLess(loaded.res.output[i + 1].template_name,
                  loaded.res.output[i].template_name)

\* the record a template was loaded from
AuthoredOf(t) == CHOOSE r \in Records : r.issuer = t.issuer

\* the one-element list that stands for a bare string
AsList(kw) == IF kw.type = "str" THEN PyList(<< kw.str >>) ELSE kw

\* C9: every template read_templates returns, from one file or from a
\* directory, holds its keywords as a list: the one-element list of the string
\* when the record held a bare string, the authored list unchanged otherwise;
\* and it passes the match test on exactly the texts on which the template
\* authored with that list passes it.
C9_KeywordsNormalized ==
    loaded.called =>
        \A i \in 1..Len(loaded.res.output) :
            LET t == loaded.res.output[i]
                kw == AsList(AuthoredOf(t).keywords)
                same == [t EXCEPT !.keywords = kw]
            IN  /\ t.keywords = kw
                /\ \A text \in Texts :
                      MatchesInput(t, PrepareInput(t, text))
                          <=> MatchesInput(same, PrepareInput(same, text))

\* a directory was loaded that holds a record with a bare string and a record
\* with a list
C9_Witness ==
    /\ IsDirLoad(loaded)
    /\ \E i, j \in 1..Len(loaded.res.output) :
          /\ AuthoredOf(loaded.res.output[i]).keywords.type = "str"
          /\ AuthoredOf(loaded.res.output[j]).keywords.type = "list"

----------------------------------------------------------------------------
(* extract_data called as a library function, while template files change. *)

\* the templates a caller passes: loaded from R1 and from R4
PassedTemplates == { LoadTemplate(R1, B_yml), LoadTemplate(R4, A_yml) }
PassedLists == UNION { [1..n -> PassedTemplates] : n \in 0..MaxPassed }

\* the values of the argument `templates`
TemplateArgs == { ArgDefault, ArgNone } \cup { ArgList(l) : l \in PassedLists }

\* the values of the argument `template`: None, "a", "a.YML" and
\* "<templates_filepath>/b.yml"
ForcedNames ==
    { << >>, << 97 >>, A_YML, templates_filepath \o << Slash >> \o B_yml }

\* the texts of the calls: "A", "A B", "C"
CallTexts == { << 65 >>, << 65, 32, 66 >>, << 67 >> }

\* what the file a.yml of the top directory is rewritten with
EditRecords == { R1, R2, R4 }

\* a template file is edited between two calls: a.yml of the top directory
EditTemplateFile(rec) ==
    /\ \E j \in 1..Len(disk[1].files) :
          /\ disk[1].files[j].name = A_yml
          /\ disk[1].files[j].tpl # rec
          /\ disk' = [disk EXCEPT ![1].files[j].tpl = rec]
    /\ UNCHANGED << loaded, extractVars, mainVars >>

\* mutant of TemplatesAfterCall: a reload replaces the module-level list
PublishReload(current, resolved, reload_templates) ==
    IF reload_templates THEN resolved ELSE current

\* main.py:93-99: `templates = read_templates(...)` binds the parameter of the
\* call; the module-level list of main.py:29, which main.py:49 made the
\* default, is what it was
TemplatesAfterCall(current, resolved, reload_templates) == current

\* extract_data(invoicefile, templates, reload_templates=..., template=...,
\* extracted_str=...)
ExtractDataCall(targ, reload_templates, template, extracted_str) ==
    LET out == ExtractData(disk, templates, targ, reload_templates, template,
                           extracted_str)
        fresh == ListOfCall(disk, templates, targ, reload_templates)
    IN  /\ call' = [made |-> TRUE, targ |-> targ,
                    reload_templates |-> reload_templates, template |-> template,
                    extracted_str |-> extracted_str, out |-> out]
        /\ reloaded' = IF reload_templates
                       THEN [set |-> TRUE, list |-> fresh]
                       ELSE reloaded
        /\ templates' = TemplatesAfterCall(templates, fresh, reload_templates)
        /\ UNCHANGED << disk, loaded, mainVars >>

InitExtract == disk = Disk0 /\ LoaderIdle /\ ExtractIdle /\ MainIdle
NextExtract ==
    \E targ \in TemplateArgs, reload_templates \in BOOLEAN,
       template \in ForcedNames, extracted_str \in CallTexts :
       ExtractDataCall(targ, reload_templates, template, extracted_str)
SpecExtract == InitExtract /\ [][NextExtract]_vars

\* calls that reload, or leave the list out, or pass one, while a.yml is edited
ReloadArgs == { ArgDefault, ArgNone, ArgList(<< LoadTemplate(R1, B_yml) >>) }
NextReload ==
    \/ \E rec \in EditRecords : EditTemplateFile(rec)
    \/ \E targ \in ReloadArgs, reload_templates \in BOOLEAN,
          template \in { << >>, << 97 >> }, extracted_str \in CallTexts :
          ExtractDataCall(targ, reload_templates, template, extracted_str)
SpecReload == InitExtract /\ [][NextReload]_vars

----------------------------------------------------------------------------
(* main(). *)

\* the batches of input files: texts "A", "A B", "C"
Batches ==
    UNION { { [i \in 1..n |-> InputFile(i, text[i])] : text \in [1..n -> CallTexts] }
            : n \in 1..MaxFiles }

\* the directories of --copy and --move: "c", "m"
CopyDir == << 99 >>
MoveDir == << 109 >>

\* the command lines of the model
CommandLines ==
    [template_folder : { << >>, SubS },
     exclude_built_in_templates : BOOLEAN,
     copy : { << >>, CopyDir },
     move : { << >>, MoveDir },
     output_format : { "none", "csv" },
     output_date_format : { IsoFormat, DayFirstFormat },
     input_files : Batches]

\* main.py:245-253: the template list of the run, and output = []
MainLoadTemplates ==
    /\ pc = "start"
    /\ main_templates' =
          (IF Len(args.template_folder) # 0
           THEN ReadTemplates(disk, args.template_folder).output ELSE << >>)
          \o (IF ~args.exclude_built_in_templates
              THEN ReadTemplates(disk, << >>).output ELSE << >>)
    /\ output' = << >>
    /\ idx' = 1
    /\ pc' = "loop"
    /\ UNCHANGED << disk, loaded, extractVars, args, fs, written >>

\* main.py:254-274: one pass of the loop over args.input_files. The four
\* values extract_data returns are bound to res as one tuple.
MainFile ==
    /\ pc = "loop"
    /\ LET f == args.input_files[idx]
           out == ExtractData(disk, templates, ArgList(main_templates), FALSE,
                              << >>, f.text)
           res == PyTuple(<< out.result, << >>, out.optimized_str,
                             out.chosen_template >>)
           acts == Truthy(res) /\ (Len(args.copy) # 0 \/ Len(args.move) # 0)
           raises == acts /\ FormatRaises(res)
           filename == FormatFilename(res)
           copied == IF acts /\ Len(args.copy) # 0
                     THEN PutFile(fs.copy_dir, filename, f) ELSE fs.copy_dir
           moved == IF acts /\ Len(args.move) # 0
                    THEN PutFile(fs.move_dir, filename, f) ELSE fs.move_dir
           present == IF acts /\ Len(args.move) # 0
                      THEN fs.present \ { f.name } ELSE fs.present
       IN  /\ output' = IF Truthy(res) THEN Append(output, res) ELSE output
           /\ IF raises
              THEN /\ pc' = "raised"
                   /\ UNCHANGED << idx, fs >>
              ELSE /\ fs' = [present |-> present, copy_dir |-> copied,
                             move_dir |-> moved]
                   /\ idx' = idx + 1
                   /\ pc' = IF idx = Len(args.input_files) THEN "write" ELSE "loop"
    /\ UNCHANGED << disk, loaded, extractVars, args, main_templates, written >>

\* main.py:276-277: the writer
MainWrite ==
    /\ pc = "write"
    /\ written' = IF args.output_format # "none"
                  THEN [called |-> TRUE, output |-> output,
                        date_format |-> args.output_date_format]
                  ELSE written
    /\ pc' = "done"
    /\ UNCHANGED << disk, loaded, extractVars, args, idx, main_templates, output, fs >>

InitMain ==
    /\ disk = Disk0 /\ LoaderIdle /\ ExtractIdle
    /\ pc = "start"
    /\ args \in CommandLines
    /\ idx = 0 /\ main_templates = << >> /\ output = << >>
    /\ fs = [present |-> {args.input_files[i].name : i \in 1..Len(args.input_files)},
             copy_dir |-> {}, move_dir |-> {}]
    /\ written = NotWritten
NextMain == MainLoadTemplates \/ MainFile \/ MainWrite
SpecMain == InitMain /\ [][NextMain]_vars

----------------------------------------------------------------------------
(* Properties of extract_data (SpecExtract, SpecReload). *)

\* the call forced no template
Unforced == call.made /\ Len(call.template) = 0

\* the indexes, in the list the call resolved against, of the templates whose
\* match test passes on their own normalized text of the call
Passing ==
    {i \in 1..Len(call.out.resolved) :
        MatchesInput(call.out.resolved[i],
                     PrepareInput(call.out.resolved[i], call.extracted_str))}

\* C1: with no forced template, the list a call resolves against is the list
\* passed (unless the call reloads), and the chosen template is the
\* lowest-index template of that list whose match test passes on its own
\* normalized text: the templates before it were tested and skipped, it was
\* the last one tested, and the extraction returned is its extraction.
C1_FirstFit ==
    Unforced =>
        /\ (call.targ.kind = "list" /\ ~call.reload_templates)
               => call.out.resolved = call.targ.list
        /\ \A k \in Passing :
              (\A j \in Passing : k <= j) =>
                  LET t == call.out.resolved[k]
                      s == PrepareInput(t, call.extracted_str)
                  IN  /\ call.out.chosen_template = t
                      /\ call.out.tested = SubSeq(call.out.resolved, 1, k)
                      /\ call.out.optimized_str = s
                      /\ call.out.result = Extract(t, s)

\* a passed list of two different templates that both match: the first was chosen
C1_Witness ==
    /\ Unforced
    /\ call.targ.kind = "list"
    /\ ~call.reload_templates
    /\ Passing = {1, 2}
    /\ call.targ.list[1] # call.targ.list[2]
    /\ call.out.chosen_template = call.targ.list[1]

\* the file a forced template name stands for
ForcedFiles == FilesAt(disk, ForcedPath(call.template))

\* C2 as stated: a call that forces a template (one whose file exists) never
\* calls the match test and returns an extraction made by that template,
\* whatever the text and the list passed.
C2_ForcedBypassesMatch ==
    (call.made /\ Len(call.template) # 0 /\ ForcedFiles # {}) =>
        /\ ~call.out.raised
        /\ call.out.tested = << >>
        /\ call.out.result.type = "dict"
        /\ \E e \in ForcedFiles :
              /\ call.out.result.issuer = e.tpl.issuer
              /\ call.out.chosen_template.issuer = e.tpl.issuer

\* C8 as stated: a call that returns returns False with no chosen template
\* when no template of its list passes the match test, and a result other
\* than False exactly when one does.
C8_FalseExactlyWhenNoMatch ==
    (call.made /\ ~call.out.raised) =>
        /\ Passing = {} =>
              (call.out.result = PyFalse /\ call.out.chosen_template = NoTemplate)
        /\ call.out.result # PyFalse <=> Passing # {}

\* C8 amended: when no template is forced, extract_data raises nothing; it
\* returns False with no chosen template when no template of the list (the
\* empty list included) passes the match test, and a result other than False
\* exactly when at least one does.
C8_UnforcedFalseExactlyWhenNoMatch ==
    Unforced =>
        /\ ~call.out.raised
        /\ Passing = {} =>
              (call.out.result = PyFalse /\ call.out.chosen_template = NoTemplate)
        /\ call.out.result # PyFalse <=> Passing # {}

\* a call on a list that is not empty, of which no template matches
C8_Witness ==
    /\ Unforced
    /\ Len(call.out.resolved) > 0
    /\ Passing = {}
    /\ Len(call.out.tested) = Len(call.out.resolved)
    /\ call.out.result = PyFalse

----------------------------------------------------------------------------
(* Properties of main() (SpecMain). *)

FileCount == Len(args.input_files)

\* what extract_data returns for input file i of the run
OutOf(i) ==
    ExtractData(disk, templates, ArgList(main_templates), FALSE, << >>,
                args.input_files[i].text)

\* a template matched input file i
Matched(i) == OutOf(i).result # PyFalse

\* the loop took up input file i: its pass ended, or raised
Handled(i) == pc # "start" /\ (i < idx \/ (pc = "raised" /\ i = idx))

\* the run asks for a copy or a move
Acting == Len(args.copy) # 0 \/ Len(args.move) # 0

\* the extraction of input file i lacks a field the filename pattern refers to
MissingField(i) == Matched(i) /\ \E key \in FieldNames : key \notin OutOf(i).result.keys

\* a directory holds input file i
Holds(dir, i) == \E e \in dir : e.content = args.input_files[i]

C6_CopyAndMove ==
    \A i \in 1..FileCount :
        (Handled(i) /\ Matched(i)) =>
            LET wanted == [name |-> FormatFilename(OutOf(i).result),
                           content |-> args.input_files[i]]
            IN  /\ Len(args.copy) # 0 => wanted \in fs.copy_dir
                /\ Len(args.move) # 0 =>
                      /\ wanted \in fs.move_dir
                      /\ args.input_files[i].name \notin fs.present
                /\ (Len(args.copy) # 0 /\ Len(args.move) = 0) =>
                      args.input_files[i].name \in fs.present

\* C7 as stated: the copy and the move of a matched file go to a name whose
\* date part is the extracted date in the format of --output-date-format.
C7_DateInOutputFormat ==
    \A i \in 1..FileCount :
        (Handled(i) /\ Matched(i)) =>
            LET date == Strftime(InvoiceDate, args.output_date_format)
            IN  /\ Len(args.copy) # 0 =>
                      \E e \in fs.copy_dir :
                          e.content = args.input_files[i] /\ e.name.date = date
                /\ Len(args.move) # 0 =>
                      \E e \in fs.move_dir :
                          e.content = args.input_files[i] /\ e.name.date = date

\* the extraction results of the matched files among the first n, in input order
RECURSIVE MatchedResults(_)
MatchedResults(n) ==
    IF n = 0 THEN << >>
    ELSE IF Matched(n) THEN Append(MatchedResults(n - 1), OutOf(n).result)
    ELSE MatchedResults(n - 1)

\* C10 as stated: a file that no template matches adds no record and is
\* neither copied nor moved: the writer receives the extraction results of
\* the files that matched, in input order, and nothing else.
C10_OnlyMatchedWritten ==
    /\ written.called =>
          [k \in 1..Len(written.output) |-> written.output[k].items[1]]
              = MatchedResults(FileCount)
    /\ \A i \in 1..FileCount :
          (Handled(i) /\ ~Matched(i)) =>
              (~Holds(fs.copy_dir, i) /\ ~Holds(fs.move_dir, i))

====
